---- MODULE Spec2Model ----
(***************************************************************************)
(* Mutual debt simplification: a list of debts is loaded into a weighted   *)
(* directed graph, every participant's net position is computed            *)
(* (collectors_and_debtors) and the net debtors are matched against the    *)
(* net collectors in a nested loop (graph_from_collectors_and_debtors).    *)
(* The Graph class (module data_structures) is modelled from its           *)
(* description: a forward index and a mirrored reverse index, both         *)
(* accumulating the weight of an ordered pair.                             *)
(***************************************************************************)
EXTENDS Integers, Sequences, FiniteSets, TLC

\* ---------------------------------------------------------------- bounds
NumParticipants == 4
MaxEdges == 3
MaxValueUnits == 2
MaxNetUnits == 6

\* Identifiers are strings; Python orders them lexicographically.
Names == <<"A", "B", "C", "D", "E", "F">>
AllNames == {Names[i] : i \in 1..Len(Names)}
Rank(p) == CHOOSE i \in 1..Len(Names) : Names[i] = p

\* the names a debt list may use, and the names the mappings handed
\* directly to the matcher may use
DebtListNames == {"A", "B", "C"}
Participants == {Names[i] : i \in 1..NumParticipants}

\* debt values of the debt list, and net amounts handed to the matcher
Values == {5 * u : u \in 0..MaxValueUnits}
NetUnits == (0 - MaxNetUnits)..MaxNetUnits

VARIABLES
    pc,                     \* "input", "match" (inside the nested loop), "done"
    round,                  \* 1: first simplification, 2: of its own result
    loaded,                 \* debts of the debt list added so far
    initial_debt_graph,     \* the graph handed to simplify_debt_graph
    in_collectors,          \* the mappings as passed to the matcher
    in_debtors,
    collectors,             \* the same dicts, updated in place by the loop
    debtors,
    simplified_debt_graph,  \* the graph the matcher builds and returns
    inspected,              \* pairs the nested loop has gone through
    transactions            \* log of the calls debt_graph.edge(...) made

vars == <<pc, round, loaded, initial_debt_graph, in_collectors, in_debtors,
          collectors, debtors, simplified_debt_graph, inspected, transactions>>

\* ------------------------------------------------------------- helpers
min(a, b) == IF a <= b THEN a ELSE b

EmptyMap == [e \in {} |-> 0]

RECURSIVE SumOver(_, _)
SumOver(f, S) ==
    IF S = {} THEN 0
    ELSE LET x == CHOOSE y \in S : TRUE IN f[x] + SumOver(f, S \ {x})

\* sum(d.values())
sum(f) == SumOver(f, DOMAIN f)

\* sorted(d): the keys of a dict in ascending order
RECURSIVE sorted(_)
sorted(S) ==
    IF S = {} THEN <<>>
    ELSE LET m == CHOOSE x \in S : \A y \in S : Rank(x) <= Rank(y)
         IN <<m>> \o sorted(S \ {m})

\* sorted(d, reverse=True)
RECURSIVE sorted_reverse(_)
sorted_reverse(S) ==
    IF S = {} THEN <<>>
    ELSE LET m == CHOOSE x \in S : \A y \in S : Rank(x) >= Rank(y)
         IN <<m>> \o sorted_reverse(S \ {m})

\* ------------------------------------------------------------ the Graph
\* Graph(): both indices empty.  fwd is keyed <<source, target>>, rev is
\* keyed <<target, source>>.
Graph == [fwd |-> EmptyMap, rev |-> EmptyMap]

Accumulate(index, key, value) ==
    [e \in (DOMAIN index) \cup {key} |->
        (IF e \in DOMAIN index THEN index[e] ELSE 0)
        + (IF e = key THEN value ELSE 0)]

\* Graph.edge(source, target, value)
edge(g, source, target, value) ==
    [fwd |-> Accumulate(g.fwd, <<source, target>>, value),
     rev |-> Accumulate(g.rev, <<target, source>>, value)]

\* iter(graph): every participant with an outgoing or an incoming edge
participants(g) ==
    {e[1] : e \in DOMAIN g.fwd} \cup {e[1] : e \in DOMAIN g.rev}

\* Graph.get_node_edges(p): the keys of p's outgoing edges
get_node_edges(g, p) == {e \in DOMAIN g.fwd : e[1] = p}

\* Graph.get_node_reverse_edges(p): the keys of p's incoming edges
get_node_reverse_edges(g, p) == {e \in DOMAIN g.rev : e[1] = p}

NumEdges(g) == Cardinality(DOMAIN g.fwd)

\* ------------------------------------------------ collectors_and_debtors
total_owed_no_credit(g, p) == SumOver(g.fwd, get_node_edges(g, p))

total_owed(g, p) ==
    SumOver(g.fwd, get_node_edges(g, p))
    - SumOver(g.rev, get_node_reverse_edges(g, p))

collectors_and_debtors_unsigned(g) ==
    [collectors |-> [p \in {q \in participants(g) : total_owed(g, q) < 0}
                        |-> total_owed(g, p)],
     debtors    |-> [p \in {q \in participants(g) : total_owed(g, q) > 0}
                        |-> total_owed(g, p)]]

collectors_and_debtors_zero(g) ==
    [collectors |-> [p \in {q \in participants(g) : total_owed(g, q) <= 0}
                        |-> 0 - total_owed(g, p)],
     debtors    |-> [p \in {q \in participants(g) : total_owed(g, q) > 0}
                        |-> total_owed(g, p)]]

collectors_and_debtors_both(g) ==
    [collectors |-> [p \in {q \in participants(g) : total_owed(g, q) < 0}
                        |-> 0 - total_owed(g, p)],
     debtors    |-> [p \in {q \in participants(g) : total_owed(g, q) # 0}
                        |-> IF total_owed(g, p) > 0 THEN total_owed(g, p)
                            ELSE 0 - total_owed(g, p)]]

collectors_and_debtors(g) ==
    [collectors |-> [p \in {q \in participants(g) : total_owed(g, q) < 0}
                        |-> 0 - total_owed(g, p)],
     debtors    |-> [p \in {q \in participants(g) : total_owed(g, q) > 0}
                        |-> total_owed(g, p)]]

\* -------------------------------------- graph_from_collectors_and_debtors
\* The nested loop inspects the pairs of sorted(collectors) x
\* sorted(debtors, reverse=True), the debtors varying fastest.  Both key
\* lists are built before the first iteration and the keys never change.
NumPairs == Cardinality(DOMAIN in_collectors) * Cardinality(DOMAIN in_debtors)

collector_at(i) ==
    sorted(DOMAIN in_collectors)[((i - 1) \div Cardinality(DOMAIN in_debtors)) + 1]

debtor_at(i) ==
    sorted_reverse(DOMAIN in_debtors)[((i - 1) % Cardinality(DOMAIN in_debtors)) + 1]

loop_body_no_debt_test(cs, ds, g, collector, debtor) ==
    LET credit == cs[collector]
        debt == ds[debtor]
    IN  IF credit # 0
        THEN LET transaction_value == min(credit, debt)
                 g2 == edge(g, debtor, collector, transaction_value)
             IN  IF credit >= debt
                 THEN [collectors |-> [cs EXCEPT ![collector] = @ + debt],
                       debtors |-> [ds EXCEPT ![debtor] = 0],
                       debt_graph |-> g2]
                 ELSE [collectors |-> [cs EXCEPT ![collector] = 0],
                       debtors |-> [ds EXCEPT ![debtor] = @ - credit],
                       debt_graph |-> g2]
        ELSE [collectors |-> cs, debtors |-> ds, debt_graph |-> g]

loop_body_debt_cleared(cs, ds, g, collector, debtor) ==
    LET credit == cs[collector]
        debt == ds[debtor]
    IN  IF credit # 0 /\ debt # 0
        THEN LET transaction_value == min(credit, debt)
                 g2 == edge(g, debtor, collector, transaction_value)
             IN  IF credit >= debt
                 THEN [collectors |-> [cs EXCEPT ![collector] = @ + debt],
                       debtors |-> [ds EXCEPT ![debtor] = 0],
                       debt_graph |-> g2]
                 ELSE [collectors |-> [cs EXCEPT ![collector] = 0],
                       debtors |-> [ds EXCEPT ![debtor] = 0],
                       debt_graph |-> g2]
        ELSE [collectors |-> cs, debtors |-> ds, debt_graph |-> g]

\* one iteration of the inner loop
loop_body(cs, ds, g, collector, debtor) ==
    LET credit == cs[collector]
        debt == ds[debtor]
    IN  IF credit # 0 /\ debt # 0
        THEN LET transaction_value == min(credit, debt)
                 g2 == edge(g, debtor, collector, transaction_value)
             IN  IF credit >= debt
                 THEN [collectors |-> [cs EXCEPT ![collector] = @ + debt],
                       debtors |-> [ds EXCEPT ![debtor] = 0],
                       debt_graph |-> g2]
                 ELSE [collectors |-> [cs EXCEPT ![collector] = 0],
                       debtors |-> [ds EXCEPT ![debtor] = @ - credit],
                       debt_graph |-> g2]
        ELSE [collectors |-> cs, debtors |-> ds, debt_graph |-> g]

\* ------------------------------------------------------------- actions
Init ==
    /\ pc = "input"
    /\ round = 1
    /\ loaded = 0
    /\ initial_debt_graph = Graph
    /\ in_collectors = EmptyMap
    /\ in_debtors = EmptyMap
    /\ collectors = EmptyMap
    /\ debtors = EmptyMap
    /\ simplified_debt_graph = Graph
    /\ inspected = 0
    /\ transactions = <<>>

\* debt_list_to_graph: one debt of the list is added to the graph
AddDebt(debtor, collector, value) ==
    /\ pc = "input"
    /\ loaded < MaxEdges
    /\ loaded' = loaded + 1
    /\ initial_debt_graph' = edge(initial_debt_graph, debtor, collector, value)
    /\ UNCHANGED <<pc, round, in_collectors, in_debtors, collectors, debtors,
                   simplified_debt_graph, inspected, transactions>>

\* simplify_debt_graph(g) up to the first iteration of the nested loop
Enter(g) ==
    LET cd == collectors_and_debtors(g)
    IN  /\ in_collectors' = cd.collectors
        /\ in_debtors' = cd.debtors
        /\ collectors' = cd.collectors
        /\ debtors' = cd.debtors
        /\ simplified_debt_graph' = Graph
        /\ inspected' = 0
        /\ transactions' = <<>>
        /\ pc' = "match"

\* simplify_debt_graph(initial_debt_graph)
Simplify ==
    /\ pc = "input"
    /\ Enter(initial_debt_graph)
    /\ UNCHANGED <<round, loaded, initial_debt_graph>>

\* one inspection of a (collector, debtor) pair by the nested loop
Inspect ==
    /\ pc = "match"
    /\ inspected < NumPairs
    /\ LET collector == collector_at(inspected + 1)
           debtor == debtor_at(inspected + 1)
           r == loop_body(collectors, debtors, simplified_debt_graph,
                          collector, debtor)
       IN  /\ collectors' = r.collectors
           /\ debtors' = r.debtors
           /\ simplified_debt_graph' = r.debt_graph
           /\ transactions' =
                IF r.debt_graph = simplified_debt_graph
                THEN transactions
                ELSE Append(transactions,
                            [debtor |-> debtor, collector |-> collector,
                             value |-> r.debt_graph.fwd[<<debtor, collector>>]
                                 - (IF <<debtor, collector>> \in
                                          DOMAIN simplified_debt_graph.fwd
                                    THEN simplified_debt_graph.fwd[<<debtor, collector>>]
                                    ELSE 0),
                             credit |-> collectors[collector],
                             debt |-> debtors[debtor]])
    /\ inspected' = inspected + 1
    /\ UNCHANGED <<pc, round, loaded, initial_debt_graph, in_collectors, in_debtors>>

\* the nested loop is exhausted: return debt_graph
Return ==
    /\ pc = "match"
    /\ inspected = NumPairs
    /\ pc' = "done"
    /\ UNCHANGED <<round, loaded, initial_debt_graph, in_collectors, in_debtors,
                   collectors, debtors, simplified_debt_graph, inspected,
                   transactions>>

\* simplify_debt_graph applied to the graph it has just returned
Resimplify ==
    /\ pc = "done"
    /\ round = 1
    /\ round' = 2
    /\ initial_debt_graph' = simplified_debt_graph
    /\ Enter(simplified_debt_graph)
    /\ UNCHANGED loaded

Next ==
    \/ \E debtor \in DebtListNames, collector \in DebtListNames, value \in Values :
          AddDebt(debtor, collector, value)
    \/ Simplify
    \/ Inspect
    \/ Return
    \/ Resimplify

Spec == Init /\ [][Next]_vars

\* graph_from_collectors_and_debtors called directly on two mappings that
\* are strictly positive, disjoint and of equal totals.
RECURSIVE SumNet(_, _)
SumNet(net, S) ==
    IF S = {} THEN 0
    ELSE LET x == CHOOSE y \in S : TRUE IN net[x] + SumNet(net, S \ {x})

MatchInit ==
    \E net \in [Participants -> NetUnits] :
        /\ SumNet(net, Participants) = 0
        /\ in_collectors = [p \in {q \in Participants : net[q] < 0} |-> 0 - 5 * net[p]]
        /\ in_debtors = [p \in {q \in Participants : net[q] > 0} |-> 5 * net[p]]
        /\ collectors = in_collectors
        /\ debtors = in_debtors
        /\ pc = "match"
        /\ round = 1
        /\ loaded = 0
        /\ initial_debt_graph = Graph
        /\ simplified_debt_graph = Graph
        /\ inspected = 0
        /\ transactions = <<>>

MatchNext == Inspect \/ Return \/ Resimplify

MatchSpec == MatchInit /\ [][MatchNext]_vars

\* =============================================================== claims
\* Net position of p read off the forward edges alone: what p owes minus
\* what p is owed.
OutgoingTotal(g, p) == SumOver(g.fwd, {e \in DOMAIN g.fwd : e[1] = p})
IncomingTotal(g, p) == SumOver(g.fwd, {e \in DOMAIN g.fwd : e[2] = p})
NetPosition(g, p) == OutgoingTotal(g, p) - IncomingTotal(g, p)

\* total value of the logged transactions paid by d
RECURSIVE PaidBy(_, _)
PaidBy(d, log) ==
    IF log = <<>> THEN 0
    ELSE (IF Head(log).debtor = d THEN Head(log).value ELSE 0) + PaidBy(d, Tail(log))

Running == pc \in {"match", "done"}

\* C1: the returned graph gives every participant an outgoing total equal to
\* its input debt and an incoming total equal to its input credit, so that
\* its net positions are the mappings the matcher was given.
C1_NetPositionPreserved ==
    pc = "done" =>
        /\ \A p \in AllNames :
              /\ OutgoingTotal(simplified_debt_graph, p)
                    = (IF p \in DOMAIN in_debtors THEN in_debtors[p] ELSE 0)
              /\ IncomingTotal(simplified_debt_graph, p)
                    = (IF p \in DOMAIN in_collectors THEN in_collectors[p] ELSE 0)
        /\ collectors_and_debtors(simplified_debt_graph)
              = [collectors |-> in_collectors, debtors |-> in_debtors]

\* C2: for every graph built by edge additions, the debtor amounts and the
\* collector amounts returned by collectors_and_debtors have the same sum.
C2_Conservation ==
    LET cd == collectors_and_debtors(initial_debt_graph)
    IN  sum(cd.debtors) = sum(cd.collectors)

C2_Witness ==
    LET cd == collectors_and_debtors(initial_debt_graph)
    IN  /\ Cardinality(DOMAIN cd.debtors) = 2
        /\ Cardinality(DOMAIN cd.collectors) = 1
        /\ sum(cd.debtors) = 15

\* C3: the simplified graph has at most |debtors| + |collectors| - 1 edges,
\* none when both mappings are empty, and no (debtor, collector) pair is
\* given more than one transaction.
C3_TransactionBound ==
    Running =>
        LET n == Cardinality(DOMAIN in_debtors) + Cardinality(DOMAIN in_collectors)
        IN  /\ n = 0 => NumEdges(simplified_debt_graph) = 0
            /\ n > 0 => NumEdges(simplified_debt_graph) <= n - 1
            /\ Len(transactions) = NumEdges(simplified_debt_graph)
            /\ \A i, j \in 1..Len(transactions) :
                  (/\ transactions[i].debtor = transactions[j].debtor
                   /\ transactions[i].collector = transactions[j].collector) => i = j

C3_Witness ==
    /\ pc = "done"
    /\ Cardinality(DOMAIN in_debtors) = 2
    /\ NumEdges(simplified_debt_graph) = 3
    /\ Cardinality(DOMAIN in_debtors) + Cardinality(DOMAIN in_collectors) = 4

\* C4: when the matcher returns, every remaining debt and every remaining
\* credit is zero, and the loop has inspected |collectors| * |debtors| pairs.
C4_RunToCompletion ==
    pc = "done" =>
        /\ \A d \in DOMAIN debtors : debtors[d] = 0
        /\ \A c \in DOMAIN collectors : collectors[c] = 0
        /\ inspected
              = Cardinality(DOMAIN in_collectors) * Cardinality(DOMAIN in_debtors)

\* C5: the mappings of collectors_and_debtors hold strictly positive
\* amounts, share no participant, leave out every participant whose
\* outgoing and incoming totals are equal, and record the difference of the
\* two totals for everyone else.
C5_WellFormed ==
    LET cd == collectors_and_debtors(initial_debt_graph)
        g == initial_debt_graph
    IN  /\ \A p \in DOMAIN cd.debtors : cd.debtors[p] > 0
        /\ \A p \in DOMAIN cd.collectors : cd.collectors[p] > 0
        /\ (DOMAIN cd.debtors) \cap (DOMAIN cd.collectors) = {}
        /\ \A p \in AllNames :
              /\ NetPosition(g, p) = 0 =>
                    p \notin (DOMAIN cd.debtors) \cup (DOMAIN cd.collectors)
              /\ NetPosition(g, p) > 0 =>
                    /\ p \in DOMAIN cd.debtors
                    /\ cd.debtors[p] = NetPosition(g, p)
              /\ NetPosition(g, p) < 0 =>
                    /\ p \in DOMAIN cd.collectors
                    /\ cd.collectors[p] = 0 - NetPosition(g, p)

C5_Witness ==
    LET cd == collectors_and_debtors(initial_debt_graph)
    IN  /\ cd.debtors = ("A" :> 15)
        /\ cd.collectors = ("C" :> 15)
        /\ "B" \in participants(initial_debt_graph)

\* C6: no edge of the simplified graph goes from a participant to itself,
\* also when the input graph holds self-loop debts.
C6_NoSelfSettlement ==
    Running => \A e \in DOMAIN simplified_debt_graph.fwd : e[1] # e[2]

C6_Witness ==
    /\ pc = "done"
    /\ \E p \in AllNames :
          /\ <<p, p>> \in DOMAIN initial_debt_graph.fwd
          /\ initial_debt_graph.fwd[<<p, p>>] > 0
          /\ \E e \in DOMAIN simplified_debt_graph.fwd : e[1] = p \/ e[2] = p

\* C7: simplifying a simplified graph again gives a graph with as many
\* edges and with the same net positions.
C7_Idempotent ==
    (pc = "done" /\ round = 2) =>
        /\ NumEdges(simplified_debt_graph) = NumEdges(initial_debt_graph)
        /\ collectors_and_debtors(simplified_debt_graph)
              = collectors_and_debtors(initial_debt_graph)

\* C8: a participant whose net position is zero has no edge in the
\* simplified graph; a pure cycle of equal debts simplifies to no edge at
\* all and the debts A->B 10, B->C 10, A->C 5 simplify to the one edge
\* A->C 15.
C8_ZeroNetVanish ==
    pc = "done" =>
        /\ \A p \in AllNames :
              NetPosition(initial_debt_graph, p) = 0 =>
                  \A e \in DOMAIN simplified_debt_graph.fwd : e[1] # p /\ e[2] # p
        /\ (\A p \in AllNames : NetPosition(initial_debt_graph, p) = 0) =>
              NumEdges(simplified_debt_graph) = 0
        /\ initial_debt_graph.fwd
              = (<<"A", "B">> :> 5 @@ <<"B", "C">> :> 5 @@ <<"C", "A">> :> 5) =>
              NumEdges(simplified_debt_graph) = 0
        /\ initial_debt_graph.fwd
              = (<<"A", "B">> :> 10 @@ <<"B", "C">> :> 10 @@ <<"A", "C">> :> 5) =>
              simplified_debt_graph.fwd = (<<"A", "C">> :> 15)

C8_Witness ==
    /\ pc = "done"
    /\ initial_debt_graph.fwd
          = (<<"A", "B">> :> 10 @@ <<"B", "C">> :> 10 @@ <<"A", "C">> :> 5)
    /\ NumEdges(simplified_debt_graph) = 1

\* C9: a step on a pair with both balances nonzero takes the debtor's debt
\* off the collector's credit and clears the debt when credit >= debt, and
\* otherwise takes the credit off the debt and clears the credit; no
\* remaining balance exceeds its initial value and the remaining credits
\* and the remaining debts always have the same sum.
C9_StepAction ==
    (pc = "match" /\ inspected' = inspected + 1) =>
        LET c == collector_at(inspected + 1)
            d == debtor_at(inspected + 1)
        IN  (collectors[c] # 0 /\ debtors[d] # 0) =>
                IF collectors[c] >= debtors[d]
                THEN /\ collectors'[c] = collectors[c] - debtors[d]
                     /\ debtors'[d] = 0
                ELSE /\ debtors'[d] = debtors[d] - collectors[c]
                     /\ collectors'[c] = 0

C9_Balances ==
    Running =>
        /\ \A c \in DOMAIN collectors : collectors[c] <= in_collectors[c]
        /\ \A d \in DOMAIN debtors : debtors[d] <= in_debtors[d]
        /\ sum(collectors) = sum(debtors)

C9_MatchingStep == [][C9_StepAction]_vars /\ []C9_Balances

\* C10: every transaction has a strictly positive value, the smaller of the
\* credit and the debt at that moment; a debtor's remaining debt is never
\* negative and, added to what the debtor has paid so far, makes up its
\* initial debt.
C10_DebtorLedger ==
    Running =>
        /\ \A i \in 1..Len(transactions) :
              /\ transactions[i].value > 0
              /\ transactions[i].value
                    = min(transactions[i].credit, transactions[i].debt)
        /\ \A d \in DOMAIN in_debtors :
              /\ debtors[d] >= 0
              /\ debtors[d] + PaidBy(d, transactions) = in_debtors[d]
              /\ PaidBy(d, transactions) = OutgoingTotal(simplified_debt_graph, d)
              /\ PaidBy(d, transactions) <= in_debtors[d]

C10_Witness ==
    /\ pc = "match"
    /\ \E d \in DOMAIN in_debtors :
          /\ debtors[d] > 0
          /\ PaidBy(d, transactions) > 0
          /\ \E i, j \in 1..Len(transactions) :
                i # j /\ transactions[i].debtor = d /\ transactions[j].debtor = d

====
